---- MODULE Spec2Model ----
(***************************************************************************)
(* A model of the azureml-examples excerpt:                                *)
(*   - the GitHub Actions workflow cli-scripts-create-compute (its `on`    *)
(*     trigger filter and the steps of its job `build`);                   *)
(*   - the notebook 3.pytorch-model-cloud-data.ipynb ("cloud-data");       *)
(*   - the TensorBoard notebook stored after the workflow in the same      *)
(*     source file ("tensorboard").                                        *)
(* A notebook is run top to bottom by one kernel; every statement is a     *)
(* call that begins, and later returns or raises.  The remote run and the  *)
(* local TensorBoard instance are separate processes.                      *)
(***************************************************************************)
EXTENDS Integers, Sequences, FiniteSets, TLC

VARIABLES
    \* ---- CI workflow
    event,        \* the last event delivered to the repository
    job,          \* "idle" | "running" | "success" | "failure"
    outcome,      \* per step: "pending" | "running" | "success" | "failure" | "skipped"
    execCount,    \* per step: how many times it was started in this run
    \* ---- notebooks
    nb,           \* which notebook the kernel runs
    pc,           \* index of the next statement to begin
    active,       \* statements begun and not yet returned or raised
    failed,       \* an exception reached the top level: the run has stopped
    returned,     \* statements (their indexes) that have returned
    raised,       \* statements (their indexes) that have raised
    bindings,     \* kernel namespace: name -> kind of handle bound to it
    localFiles,   \* paths in the working directory
    blobs,        \* paths in the workspace's default datastore
    blobs0,       \* the datastore's paths before the notebook was run
    dataArg,      \* what the run configuration passes as --data-path
    runStatus,    \* remote run: "none" | "queued" | "running" | "completed" | "failed"
    dataSeen,     \* the listing of the data path printed by the training script
    logLines,     \* log lines the remote run has written
    tbState,      \* TensorBoard instance: "none" | "created" | "running" | "stopped"
    tbSynced,     \* log lines the TensorBoard instance has fetched
    widgetShown   \* RunDetails(run).show() has displayed the widget

ciVars == <<event, job, outcome, execCount>>
nbVars == <<nb, pc, active, failed, returned, raised, bindings, localFiles, blobs,
            blobs0, dataArg, runStatus, dataSeen, logLines, tbState, tbSynced,
            widgetShown>>
vars == <<event, job, outcome, execCount, nb, pc, active, failed, returned,
          raised, bindings, localFiles, blobs, blobs0, dataArg, runStatus, dataSeen,
          logLines, tbState, tbSynced, widgetShown>>

\* The remote run writes at most this many log lines in the model.
MaxLogLines == 2

(***************************************************************************)
(* The workflow's trigger: `on` (schedule, pull_request).                  *)
(***************************************************************************)

\* One field of a cron expression, <<kind, a, b>>: "*", a number a, or a/b.
AnyField == <<"any", 0, 1>>
ValueField(v) == <<"value", v, 1>>
StepField(start, step) == <<"step", start, step>>

\* cron: "0 0/4 * * *"  (minute, hour, day of month, month, day of week)
CronSchedule == <<ValueField(0), StepField(0, 4), AnyField, AnyField, AnyField>>

FieldMatches(f, x) ==
    CASE f[1] = "any" -> TRUE
      [] f[1] = "value" -> x = f[2]
      [] f[1] = "step" -> x >= f[2] /\ (x - f[2]) % f[3] = 0

\* The day-of-month, month and day-of-week fields are "*": every date matches.
CronMatches(minute, hour) ==
    /\ FieldMatches(CronSchedule[1], minute)
    /\ FieldMatches(CronSchedule[2], hour)
    /\ FieldMatches(CronSchedule[3], 1)
    /\ FieldMatches(CronSchedule[4], 1)
    /\ FieldMatches(CronSchedule[5], 1)

PullRequestBranches == {"main", "cli-preview"}

PullRequestPaths ==
    {"cli/create-compute.sh", ".github/workflows/cli-scripts-create-compute.yml"}

PullRequestMatchesNoPaths(base, changed) ==
    base \in PullRequestBranches

PullRequestMatches(base, changed) ==
    /\ base \in PullRequestBranches
    /\ \E p \in changed : p \in PullRequestPaths

\* An event: <<type, minute, hour, base branch, changed files>>.
EventType(e) == e[1]
EventMinute(e) == e[2]
EventHour(e) == e[3]
EventBase(e) == e[4]
EventChanged(e) == e[5]

\* Whether the workflow's `on` section selects event e.
Triggers(e) ==
    CASE EventType(e) = "schedule" -> CronMatches(EventMinute(e), EventHour(e))
      [] EventType(e) = "pull_request" ->
            PullRequestMatches(EventBase(e), EventChanged(e))
      [] OTHER -> FALSE

\* Events the repository can receive.
Minutes == 0..59
Hours == 0..23
Branches == {"main", "cli-preview", "dev"}
Files ==
    {"cli/create-compute.sh", ".github/workflows/cli-scripts-create-compute.yml",
     "cli/setup.sh", "README.md"}

NoEvent == <<"none", 0, 0, "", {}>>
ScheduleEvent(m, h) == <<"schedule", m, h, "", {}>>
PullRequestEvent(base, changed) == <<"pull_request", 0, 0, base, changed>>
PushEvent(branch, changed) == <<"push", 0, 0, branch, changed>>

(***************************************************************************)
(* The job `build`: its steps, run in order by the runner.                 *)
(***************************************************************************)

StepNames ==
    << "check out repo", "azure login", "install ml cli", "setup",
       "scripts installs", "test script script" >>

\* No step has continue-on-error.
NothingTolerated == <<FALSE, FALSE, FALSE, FALSE, FALSE, FALSE>>

\* continue-on-error, per step (default false).
ContinueOnError == <<FALSE, FALSE, FALSE, TRUE, FALSE, FALSE>>

StepIds == 1..Len(StepNames)

StepOf(name) == CHOOSE i \in StepIds : StepNames[i] = name

AllPending == [i \in StepIds |-> "pending"]
NoneRun == [i \in StepIds |-> 0]

\* A step counts against the job when it failed and its failure is not tolerated.
Breaks(i, o) == o[i] = "failure" /\ ~ContinueOnError[i]

JobBroken(o) == \E i \in StepIds : Breaks(i, o)

\* The first step that is neither finished nor skipped.
Resolved(o, i) == o[i] \in {"success", "failure", "skipped"}

IsNextStep(i) ==
    /\ outcome[i] = "pending"
    /\ \A j \in StepIds : j < i => Resolved(outcome, j)

\* An event arrives; a matching one starts a run of the workflow.
Deliver(e) ==
    /\ job # "running"
    /\ event' = e
    /\ job' = IF Triggers(e) THEN "running" ELSE "idle"
    /\ outcome' = AllPending
    /\ execCount' = NoneRun
    /\ UNCHANGED nbVars

OnSchedule ==
    \E m \in Minutes, h \in Hours : Deliver(ScheduleEvent(m, h))

OnPullRequest ==
    \E b \in Branches, c \in SUBSET Files : Deliver(PullRequestEvent(b, c))

OnPush ==
    \E b \in Branches, c \in SUBSET Files : Deliver(PushEvent(b, c))

\* A failed step is started again instead of ending.
StepFailRetried(i) ==
    /\ job = "running"
    /\ outcome[i] = "running"
    /\ outcome' = [outcome EXCEPT ![i] = "pending"]
    /\ UNCHANGED <<event, job, execCount>>
    /\ UNCHANGED nbVars

\* The runner starts the next step (default condition: success()).
StepStart(i) ==
    /\ job = "running"
    /\ IsNextStep(i)
    /\ ~JobBroken(outcome)
    /\ outcome' = [outcome EXCEPT ![i] = "running"]
    /\ execCount' = [execCount EXCEPT ![i] = @ + 1]
    /\ UNCHANGED <<event, job>>
    /\ UNCHANGED nbVars

\* The step's command exits 0.
StepSucceed(i) ==
    /\ job = "running"
    /\ outcome[i] = "running"
    /\ outcome' = [outcome EXCEPT ![i] = "success"]
    /\ UNCHANGED <<event, job, execCount>>
    /\ UNCHANGED nbVars

\* The step's command exits non-zero; it is not run again.
StepFail(i) ==
    /\ job = "running"
    /\ outcome[i] = "running"
    /\ outcome' = [outcome EXCEPT ![i] = "failure"]
    /\ UNCHANGED <<event, job, execCount>>
    /\ UNCHANGED nbVars

\* After an untolerated failure the remaining steps are skipped.
StepSkip(i) ==
    /\ job = "running"
    /\ IsNextStep(i)
    /\ JobBroken(outcome)
    /\ outcome' = [outcome EXCEPT ![i] = "skipped"]
    /\ UNCHANGED <<event, execCount, job>>
    /\ UNCHANGED nbVars

\* All steps are resolved: the job concludes.
JobFinish ==
    /\ job = "running"
    /\ \A i \in StepIds : Resolved(outcome, i)
    /\ job' = IF JobBroken(outcome) THEN "failure" ELSE "success"
    /\ UNCHANGED <<event, outcome, execCount>>
    /\ UNCHANGED nbVars

(***************************************************************************)
(* The notebooks: the statements of their code cells, in cell order.       *)
(***************************************************************************)

CloudData == "cloud-data"
TensorBoard == "tensorboard"
Notebooks == {CloudData, TensorBoard}

\* The cloud-data notebook with the cleanup cell placed before the upload.
CloudDataProgramCleanupFirst ==
    << "!pip install", "import", "Workspace.from_config", "datasets.CIFAR10",
       "ws.get_default_datastore", "import", "os.remove", "shutil.rmtree",
       "ds.upload", "import", "Dataset.File.from_files",
       "Environment.from_conda_specification", "ScriptRunConfig",
       "Experiment.submit", "RunDetails.show", "run.wait_for_completion" >>

\* The cloud-data notebook without the rebinding of ds to the file dataset.
CloudDataProgramNoDataset ==
    << "!pip install", "import", "Workspace.from_config", "datasets.CIFAR10",
       "ws.get_default_datastore", "ds.upload", "import", "os.remove",
       "shutil.rmtree", "import", "Environment.from_conda_specification",
       "ScriptRunConfig", "Experiment.submit", "RunDetails.show",
       "run.wait_for_completion" >>

CloudDataProgram ==
    << "!pip install", "import", "Workspace.from_config", "datasets.CIFAR10",
       "ws.get_default_datastore", "ds.upload", "import", "os.remove",
       "shutil.rmtree", "import", "Dataset.File.from_files",
       "Environment.from_conda_specification", "ScriptRunConfig",
       "Experiment.submit", "RunDetails.show", "run.wait_for_completion" >>

TensorBoardProgram ==
    << "import", "Workspace.from_config", "settings", "import",
       "Environment.from_conda_specification", "env.docker", "import",
       "ScriptRunConfig", "Experiment.submit", "import", "Tensorboard",
       "tb.start", "tb.stop", "run.wait_for_completion" >>

Program(n) == IF n = CloudData THEN CloudDataProgram ELSE TensorBoardProgram

Stmt(i) == Program(nb)[i]

\* Statements that cannot raise: a `!` shell escape, assignments of literals.
CannotRaise == {"!pip install", "settings"}

\* ---- the kernel namespace
Names == {"ws", "ds", "env", "src", "run", "tb"}
Unbound == [n \in Names |-> "unbound"]

\* What a statement needs bound, and to what, to get past its name lookups.
Ready(s, b) ==
    CASE s = "ws.get_default_datastore" -> b["ws"] = "workspace"
      [] s = "ds.upload" -> b["ds"] = "datastore"
      [] s = "Dataset.File.from_files" -> b["ws"] = "workspace"
      [] s = "env.docker" -> b["env"] = "environment"
      [] s = "ScriptRunConfig" ->
            /\ b["env"] = "environment"
            /\ nb = CloudData => b["ds"] \in {"datastore", "dataset"}
      [] s = "Experiment.submit" -> b["ws"] = "workspace" /\ b["src"] = "config"
      [] s = "RunDetails.show" -> b["run"] = "run"
      [] s = "Tensorboard" -> b["run"] = "run"
      [] s = "tb.start" -> b["tb"] = "tensorboard"
      [] s = "tb.stop" -> b["tb"] = "tensorboard"
      [] s = "run.wait_for_completion" -> b["run"] = "run"
      [] OTHER -> TRUE

\* ---- paths: sequences of components
IsPrefix(d, p) == Len(d) <= Len(p) /\ SubSeq(p, 1, Len(d)) = d
Relative(d, p) == SubSeq(p, Len(d) + 1, Len(p))

\* The entries of directory d.
ListDir(fs, d) == {p[Len(d) + 1] : p \in {q \in fs : IsPrefix(d, q) /\ Len(q) > Len(d)}}

DirExists(fs, d) == \E p \in fs : IsPrefix(d, p) /\ Len(p) > Len(d)

\* datasets.CIFAR10(".", download=True): the archive and what it extracts to.
CifarArchive == <<"cifar-10-python.tar.gz">>
CifarDir == <<"cifar-10-batches-py">>
CifarExtracted ==
    {CifarDir \o <<f>> : f \in {"data_batch_1", "test_batch", "batches.meta"}}

\* ds.upload(src_dir=..., target_path=..., overwrite=True)
UploadSrcDir == CifarDir
UploadTargetPath == <<"tutorials", "datasets", "cifar-10-batches-py">>

Uploaded(fs, srcDir, targetPath) ==
    {targetPath \o Relative(srcDir, p) : p \in {q \in fs : IsPrefix(srcDir, q)}}

\* Dataset.File.from_files((datastore, "tutorials/datasets/"))
DatasetPath == <<"tutorials", "datasets">>

\* What the compute target mounts for --data-path.
MountRoot(arg) == IF arg = "dataset" THEN DatasetPath ELSE <<>>

\* What the datastore may hold before the notebook is run.
Preexisting ==
    { <<"tutorials", "datasets", "cifar-10-python.tar.gz">>,
      <<"tutorials", "datasets", "cifar-10-batches-py", "data_batch_1">>,
      <<"azureml", "logs.txt">> }

TerminalStatus == {"completed", "failed"}

Done == pc > Len(Program(nb)) /\ active = {} /\ ~failed

(***************************************************************************)
(* The kernel: one statement at a time, stopping at the first exception.   *)
(***************************************************************************)

\* The next statement begins while an earlier one is still in progress.
BeginWithoutWaiting ==
    /\ ~failed
    /\ pc <= Len(Program(nb))
    /\ active' = active \cup {pc}
    /\ pc' = pc + 1
    /\ UNCHANGED <<nb, failed, returned, raised, bindings, localFiles, blobs,
                   blobs0, dataArg, runStatus, dataSeen, logLines, tbState, tbSynced,
                   widgetShown>>
    /\ UNCHANGED ciVars

\* The next statement begins once the previous one has returned.
Begin ==
    /\ ~failed
    /\ active = {}
    /\ pc <= Len(Program(nb))
    /\ active' = {pc}
    /\ pc' = pc + 1
    /\ UNCHANGED <<nb, failed, returned, raised, bindings, localFiles, blobs,
                   blobs0, dataArg, runStatus, dataSeen, logLines, tbState, tbSynced,
                   widgetShown>>
    /\ UNCHANGED ciVars

\* The exception is swallowed and the run goes on with the next statement.
RaiseSwallowed ==
    /\ \E i \in active :
          /\ Stmt(i) \notin CannotRaise
          /\ active' = active \ {i}
          /\ raised' = raised \cup {i}
    /\ UNCHANGED <<nb, pc, failed, returned, bindings, localFiles, blobs, blobs0,
                   dataArg, runStatus, dataSeen, logLines, tbState, tbSynced,
                   widgetShown>>
    /\ UNCHANGED ciVars

\* The statement in progress raises; nothing catches it.
Raise ==
    /\ \E i \in active :
          /\ Stmt(i) \notin CannotRaise
          /\ active' = active \ {i}
          /\ raised' = raised \cup {i}
    /\ failed' = TRUE
    /\ UNCHANGED <<nb, pc, returned, bindings, localFiles, blobs, blobs0,
                   dataArg, runStatus, dataSeen, logLines, tbState, tbSynced,
                   widgetShown>>
    /\ UNCHANGED ciVars

\* Statement s, in progress, returns.
Finish(s) ==
    /\ \E i \in active :
          /\ Stmt(i) = s
          /\ active' = active \ {i}
          /\ returned' = returned \cup {i}
    /\ Ready(s, bindings)
    /\ UNCHANGED <<nb, pc, failed, raised, blobs0>>
    /\ UNCHANGED ciVars

Bind(name, kind) == bindings' = [bindings EXCEPT ![name] = kind]

(***************************************************************************)
(* The statements.                                                         *)
(***************************************************************************)

PipInstall ==
    /\ Finish("!pip install")
    /\ UNCHANGED <<bindings, localFiles, blobs, dataArg, runStatus, dataSeen,
                   logLines, tbState, tbSynced, widgetShown>>

Import ==
    /\ Finish("import")
    /\ UNCHANGED <<bindings, localFiles, blobs, dataArg, runStatus, dataSeen,
                   logLines, tbState, tbSynced, widgetShown>>

Settings ==
    /\ Finish("settings")
    /\ UNCHANGED <<bindings, localFiles, blobs, dataArg, runStatus, dataSeen,
                   logLines, tbState, tbSynced, widgetShown>>

WorkspaceFromConfig ==
    /\ Finish("Workspace.from_config")
    /\ Bind("ws", "workspace")
    /\ UNCHANGED <<localFiles, blobs, dataArg, runStatus, dataSeen, logLines,
                   tbState, tbSynced, widgetShown>>

\* Downloads the archive and extracts it, unless the files are there already.
DownloadCifar10 ==
    /\ Finish("datasets.CIFAR10")
    /\ localFiles' = localFiles \cup {CifarArchive} \cup CifarExtracted
    /\ UNCHANGED <<bindings, blobs, dataArg, runStatus, dataSeen, logLines,
                   tbState, tbSynced, widgetShown>>

GetDefaultDatastore ==
    /\ Finish("ws.get_default_datastore")
    /\ Bind("ds", "datastore")
    /\ UNCHANGED <<localFiles, blobs, dataArg, runStatus, dataSeen, logLines,
                   tbState, tbSynced, widgetShown>>

DatastoreUpload ==
    /\ Finish("ds.upload")
    /\ blobs' = blobs \cup Uploaded(localFiles, UploadSrcDir, UploadTargetPath)
    /\ UNCHANGED <<bindings, localFiles, dataArg, runStatus, dataSeen, logLines,
                   tbState, tbSynced, widgetShown>>

\* os.remove("cifar-10-python.tar.gz"): raises when the file is missing.
OsRemove ==
    /\ Finish("os.remove")
    /\ CifarArchive \in localFiles
    /\ localFiles' = localFiles \ {CifarArchive}
    /\ UNCHANGED <<bindings, blobs, dataArg, runStatus, dataSeen, logLines,
                   tbState, tbSynced, widgetShown>>

\* shutil.rmtree("cifar-10-batches-py"): raises when the directory is missing.
ShutilRmtree ==
    /\ Finish("shutil.rmtree")
    /\ DirExists(localFiles, CifarDir)
    /\ localFiles' = {p \in localFiles : ~IsPrefix(CifarDir, p)}
    /\ UNCHANGED <<bindings, blobs, dataArg, runStatus, dataSeen, logLines,
                   tbState, tbSynced, widgetShown>>

DatasetFromFiles ==
    /\ Finish("Dataset.File.from_files")
    /\ Bind("ds", "dataset")
    /\ UNCHANGED <<localFiles, blobs, dataArg, runStatus, dataSeen, logLines,
                   tbState, tbSynced, widgetShown>>

EnvironmentFromCondaSpecification ==
    /\ Finish("Environment.from_conda_specification")
    /\ Bind("env", "environment")
    /\ UNCHANGED <<localFiles, blobs, dataArg, runStatus, dataSeen, logLines,
                   tbState, tbSynced, widgetShown>>

\* env.docker.enabled = True; env.docker.base_image = ...
EnvDocker ==
    /\ Finish("env.docker")
    /\ UNCHANGED <<bindings, localFiles, blobs, dataArg, runStatus, dataSeen,
                   logLines, tbState, tbSynced, widgetShown>>

\* The cloud-data notebook passes ds.as_mount() for --data-path: whatever ds
\* is bound to at this point (a datastore has as_mount() too).
ScriptRunConfig ==
    /\ Finish("ScriptRunConfig")
    /\ Bind("src", "config")
    /\ dataArg' = IF nb = CloudData THEN bindings["ds"] ELSE dataArg
    /\ UNCHANGED <<localFiles, blobs, runStatus, dataSeen, logLines, tbState,
                   tbSynced, widgetShown>>

ExperimentSubmit ==
    /\ Finish("Experiment.submit")
    /\ Bind("run", "run")
    /\ runStatus' = "queued"
    /\ UNCHANGED <<localFiles, blobs, dataArg, dataSeen, logLines, tbState,
                   tbSynced, widgetShown>>

RunDetailsShow ==
    /\ Finish("RunDetails.show")
    /\ widgetShown' = TRUE
    /\ UNCHANGED <<bindings, localFiles, blobs, dataArg, runStatus, dataSeen,
                   logLines, tbState, tbSynced>>

TensorboardCreate ==
    /\ Finish("Tensorboard")
    /\ Bind("tb", "tensorboard")
    /\ tbState' = "created"
    /\ UNCHANGED <<localFiles, blobs, dataArg, runStatus, dataSeen, logLines,
                   tbSynced, widgetShown>>

\* tb.start() launches the TensorBoard server and returns its URI.
TbStart ==
    /\ Finish("tb.start")
    /\ tbState' = "running"
    /\ UNCHANGED <<bindings, localFiles, blobs, dataArg, runStatus, dataSeen,
                   logLines, tbSynced, widgetShown>>

\* tb.stop() returns and leaves the instance running.
TbStopNoEffect ==
    /\ Finish("tb.stop")
    /\ UNCHANGED <<bindings, localFiles, blobs, dataArg, runStatus, dataSeen,
                   logLines, tbState, tbSynced, widgetShown>>

TbStop ==
    /\ Finish("tb.stop")
    /\ tbState' = "stopped"
    /\ UNCHANGED <<bindings, localFiles, blobs, dataArg, runStatus, dataSeen,
                   logLines, tbSynced, widgetShown>>

\* run.wait_for_completion returns at once, whatever the run's status.
WaitForCompletionNoWait ==
    /\ Finish("run.wait_for_completion")
    /\ UNCHANGED <<bindings, localFiles, blobs, dataArg, runStatus, dataSeen,
                   logLines, tbState, tbSynced, widgetShown>>

\* run.wait_for_completion(show_output=True) blocks until the run has ended.
WaitForCompletion ==
    /\ Finish("run.wait_for_completion")
    /\ runStatus \in TerminalStatus
    /\ UNCHANGED <<bindings, localFiles, blobs, dataArg, runStatus, dataSeen,
                   logLines, tbState, tbSynced, widgetShown>>

(***************************************************************************)
(* What runs beside the kernel: the remote run, the TensorBoard instance.  *)
(***************************************************************************)

\* The compute target mounts the data path and starts the training script,
\* which lists the files in the data path.
RunStart ==
    /\ runStatus = "queued"
    /\ runStatus' = "running"
    /\ dataSeen' = IF nb = CloudData
                   THEN <<ListDir(blobs, MountRoot(dataArg))>>
                   ELSE dataSeen
    /\ UNCHANGED <<nb, pc, active, failed, returned, raised, bindings, localFiles,
                   blobs, blobs0, dataArg, logLines, tbState, tbSynced,
                   widgetShown>>
    /\ UNCHANGED ciVars

RunLog ==
    /\ runStatus = "running"
    /\ logLines < MaxLogLines
    /\ logLines' = logLines + 1
    /\ UNCHANGED <<nb, pc, active, failed, returned, raised, bindings, localFiles,
                   blobs, blobs0, dataArg, runStatus, dataSeen, tbState,
                   tbSynced, widgetShown>>
    /\ UNCHANGED ciVars

RunComplete ==
    /\ runStatus = "running"
    /\ runStatus' = "completed"
    /\ UNCHANGED <<nb, pc, active, failed, returned, raised, bindings, localFiles,
                   blobs, blobs0, dataArg, dataSeen, logLines, tbState,
                   tbSynced, widgetShown>>
    /\ UNCHANGED ciVars

RunFail ==
    /\ runStatus \in {"queued", "running"}
    /\ runStatus' = "failed"
    /\ UNCHANGED <<nb, pc, active, failed, returned, raised, bindings, localFiles,
                   blobs, blobs0, dataArg, dataSeen, logLines, tbState,
                   tbSynced, widgetShown>>
    /\ UNCHANGED ciVars

\* The running TensorBoard instance streams the run's logs.
TbSync ==
    /\ tbState = "running"
    /\ tbSynced < logLines
    /\ tbSynced' = logLines
    /\ UNCHANGED <<nb, pc, active, failed, returned, raised, bindings, localFiles,
                   blobs, blobs0, dataArg, runStatus, dataSeen, logLines,
                   tbState, widgetShown>>
    /\ UNCHANGED ciVars

(***************************************************************************)
(* Specifications.                                                         *)
(***************************************************************************)

CiIdle ==
    /\ event = NoEvent
    /\ job = "idle"
    /\ outcome = AllPending
    /\ execCount = NoneRun

NotebookStart(n, fs, store) ==
    /\ nb = n
    /\ pc = 1
    /\ active = {}
    /\ failed = FALSE
    /\ returned = {}
    /\ raised = {}
    /\ bindings = Unbound
    /\ localFiles = fs
    /\ blobs = store
    /\ blobs0 = store
    /\ dataArg = "none"
    /\ runStatus = "none"
    /\ dataSeen = <<>>
    /\ logLines = 0
    /\ tbState = "none"
    /\ tbSynced = 0
    /\ widgetShown = FALSE

\* The working directory is empty, or holds an earlier download.
InitialLocalFiles == {{}, {CifarArchive} \cup CifarExtracted}

InitCI == CiIdle /\ NotebookStart(CloudData, {}, {})

InitNB ==
    /\ CiIdle
    /\ \/ \E fs \in InitialLocalFiles, store \in SUBSET Preexisting :
             NotebookStart(CloudData, fs, store)
       \/ NotebookStart(TensorBoard, {}, {})

NextCI ==
    \/ OnSchedule
    \/ OnPullRequest
    \/ OnPush
    \/ \E i \in StepIds : StepStart(i)
    \/ \E i \in StepIds : StepSucceed(i)
    \/ \E i \in StepIds : StepFail(i)
    \/ \E i \in StepIds : StepSkip(i)
    \/ JobFinish

Return ==
    \/ PipInstall
    \/ Import
    \/ Settings
    \/ WorkspaceFromConfig
    \/ DownloadCifar10
    \/ GetDefaultDatastore
    \/ DatastoreUpload
    \/ OsRemove
    \/ ShutilRmtree
    \/ DatasetFromFiles
    \/ EnvironmentFromCondaSpecification
    \/ EnvDocker
    \/ ScriptRunConfig
    \/ ExperimentSubmit
    \/ RunDetailsShow
    \/ TensorboardCreate
    \/ TbStart
    \/ TbStop
    \/ WaitForCompletion

RemoteProgress == RunStart \/ RunComplete \/ RunFail

NextNB ==
    \/ Begin
    \/ Return
    \/ Raise
    \/ RunStart
    \/ RunLog
    \/ RunComplete
    \/ RunFail
    \/ TbSync

SpecCI == InitCI /\ [][NextCI]_vars

SpecNB == InitNB /\ [][NextNB]_vars

\* The kernel runs the next statement of a "Run All"; the service brings a
\* submitted run to an end.
FairSpecNB ==
    /\ SpecNB
    /\ WF_vars(Begin \/ Return)
    /\ WF_vars(RemoteProgress)

(***************************************************************************)
(* Properties.                                                             *)
(***************************************************************************)

InProgress(s) == \E i \in active : Stmt(i) = s
HasReturned(s) == \E i \in returned : Stmt(i) = s
HasRaised(s) == \E i \in raised : Stmt(i) = s
Begun(s) == \E i \in 1..(pc - 1) : Stmt(i) = s

\* C1: in one run of the job every step is started at most once, a step is
\* started only when all the steps listed before it have been started once
\* and have ended, and the last step (bash -x create-compute.sh) is started
\* only after check out repo, azure login and install ml cli have succeeded.
C1_StepsOnceInOrder ==
    /\ StepOf("check out repo") = 1
    /\ StepOf("azure login") = 2
    /\ StepOf("install ml cli") = 3
    /\ StepOf("setup") = 4
    /\ StepOf("scripts installs") = 5
    /\ StepOf("test script script") = 6
    /\ \A i \in StepIds : execCount[i] <= 1
    /\ \A i, j \in StepIds :
          (i < j /\ execCount[j] > 0) =>
              /\ execCount[i] = 1
              /\ outcome[i] \in {"success", "failure"}
    /\ execCount[StepOf("test script script")] > 0 =>
          outcome[1] = "success" /\ outcome[2] = "success" /\ outcome[3] = "success"

C1_Witness ==
    /\ outcome[6] = "running"
    /\ \A i \in 1..5 : execCount[i] = 1

\* C2: a failure of the step `setup` is the only tolerated one: it neither
\* skips a later step nor fails the job, whose conclusion is success exactly
\* when every other step succeeded; after a failure of any other step no
\* later step is started and the job concludes as failed.
C2_OnlySetupFailureTolerated ==
    /\ \A i \in StepIds :
          (i # StepOf("setup") /\ outcome[i] = "failure") =>
              /\ \A j \in StepIds : j > i => execCount[j] = 0
              /\ job \in {"running", "failure"}
    /\ \A j \in StepIds :
          outcome[j] = "skipped" =>
              \E i \in StepIds : i < j /\ i # StepOf("setup") /\ outcome[i] = "failure"
    /\ job \in {"success", "failure"} =>
          (job = "success" <=> \A i \in StepIds \ {StepOf("setup")} : outcome[i] = "success")

C2_Witness ==
    /\ outcome[StepOf("setup")] = "failure"
    /\ outcome[5] = "success"
    /\ outcome[6] = "success"
    /\ job = "success"

\* C8: a run of the workflow exists only for a schedule event at minute 0 of
\* hour 0, 4, 8, 12, 16 or 20, or for a pull request whose base is main or
\* cli-preview and which changes cli/create-compute.sh or the workflow file;
\* the schedule matches six times a day.
C8_RunOnlyOnTrigger ==
    /\ job # "idle" =>
          \/ /\ EventType(event) = "schedule"
             /\ EventMinute(event) = 0
             /\ EventHour(event) \in {0, 4, 8, 12, 16, 20}
          \/ /\ EventType(event) = "pull_request"
             /\ EventBase(event) \in {"main", "cli-preview"}
             /\ \/ "cli/create-compute.sh" \in EventChanged(event)
                \/ ".github/workflows/cli-scripts-create-compute.yml"
                      \in EventChanged(event)
    /\ Cardinality({t \in Hours \X Minutes : CronMatches(t[2], t[1])}) = 6

C8_Witness ==
    /\ job = "running"
    /\ EventType(event) = "pull_request"
    /\ EventBase(event) = "cli-preview"
    /\ EventChanged(event) = {"cli/create-compute.sh", "README.md"}

\* C3: in the cloud-data notebook a statement in progress finds the handles
\* it uses bound by earlier statements that have returned: the workspace for
\* get_default_datastore, from_files and submit; the completed upload for
\* from_files; the file dataset and the environment for ScriptRunConfig; the
\* run configuration for submit; the run for RunDetails.show and
\* wait_for_completion.  --data-path is the file dataset, never the datastore.
C3_HandlesInOrder ==
    nb = CloudData =>
        /\ \A s \in {"ws.get_default_datastore", "Dataset.File.from_files",
                     "Experiment.submit"} :
              InProgress(s) =>
                  bindings["ws"] = "workspace" /\ HasReturned("Workspace.from_config")
        /\ InProgress("Dataset.File.from_files") => HasReturned("ds.upload")
        /\ InProgress("ScriptRunConfig") =>
              /\ bindings["ds"] = "dataset"
              /\ HasReturned("Dataset.File.from_files")
              /\ bindings["env"] = "environment"
              /\ HasReturned("Environment.from_conda_specification")
        /\ InProgress("Experiment.submit") =>
              bindings["src"] = "config" /\ HasReturned("ScriptRunConfig")
        /\ \A s \in {"RunDetails.show", "run.wait_for_completion"} :
              InProgress(s) => bindings["run"] = "run" /\ HasReturned("Experiment.submit")
        /\ dataArg \in {"none", "dataset"}

C3_Witness ==
    /\ nb = CloudData
    /\ InProgress("run.wait_for_completion")
    /\ dataArg = "dataset"
    /\ runStatus = "running"

\* What the notebook has started on the local machine and is in progress.
LocalInProgress == Cardinality(active) + (IF tbState = "running" THEN 1 ELSE 0)

\* C4 as stated: at most one operation started by the notebook is in
\* progress at any moment, also between tb.start() and tb.stop().
C4_AtMostOneLocalActivity == LocalInProgress <= 1

\* C4 amended: at most one statement is in progress at any moment; the
\* TensorBoard instance runs beside the kernel exactly from the return of
\* tb.start() until tb.stop() returns, in the TensorBoard notebook only.
C4_OneStatementBesideTensorBoard ==
    /\ Cardinality(active) <= 1
    /\ \A i \in active : \A j \in 1..(i - 1) : j \in returned
    /\ tbState = "running" <=>
          (nb = TensorBoard /\ HasReturned("tb.start") /\ ~HasReturned("tb.stop"))
    /\ tbSynced > 0 => HasReturned("tb.start")
    /\ nb = CloudData => LocalInProgress <= 1

C4_Witness ==
    /\ tbState = "running"
    /\ InProgress("tb.stop")
    /\ tbSynced > 0
    /\ runStatus = "running"

\* C5: nothing catches or retries an exception: once a statement has raised,
\* the run has stopped, no later statement has begun and the statement has
\* not returned.  In the cloud-data notebook, after Workspace.from_config, the
\* CIFAR10 download or ds.upload raised, neither cleanup statement has run,
\* the downloaded files it would delete are still there, and no run exists.
C5_ErrorsPropagate ==
    /\ raised # {} =>
          /\ failed
          /\ active = {}
          /\ \A i \in raised : pc = i + 1 /\ i \notin returned
          /\ \A j \in returned : \A i \in raised : j < i
    /\ (/\ nb = CloudData
        /\ \E s \in {"Workspace.from_config", "datasets.CIFAR10", "ds.upload"} :
              HasRaised(s)) =>
          /\ ~Begun("os.remove")
          /\ ~Begun("shutil.rmtree")
          /\ ~Begun("Experiment.submit")
          /\ runStatus = "none"
          /\ HasReturned("datasets.CIFAR10") =>
                ({CifarArchive} \cup CifarExtracted) \subseteq localFiles

C5_Witness ==
    /\ nb = CloudData
    /\ HasRaised("ds.upload")
    /\ CifarArchive \in localFiles
    /\ blobs = {}

\* C6: in the TensorBoard notebook the instance runs only once the run has
\* been submitted, tb.stop() begins only after tb.start() has returned, and
\* at the end of the notebook the instance is stopped.
C6_TensorBoardStartedThenStopped ==
    nb = TensorBoard =>
        /\ tbState = "running" => (HasReturned("Experiment.submit") /\ runStatus # "none")
        /\ Begun("tb.stop") => HasReturned("tb.start")
        /\ Done => tbState = "stopped"

C6_Witness ==
    /\ nb = TensorBoard
    /\ Done
    /\ tbState = "stopped"
    /\ tbSynced = MaxLogLines

\* C7: started with nothing under tutorials/datasets/, the listing of the
\* data path printed by the training script is cifar-10-batches-py and
\* cifar-10-python.tar.gz.
C7_ListingHasBothEntries ==
    (/\ nb = CloudData
     /\ ListDir(blobs0, <<"tutorials", "datasets">>) = {}
     /\ dataSeen # <<>>) =>
        dataSeen[1] = {"cifar-10-batches-py", "cifar-10-python.tar.gz"}

\* C9: each notebook's last statement is run.wait_for_completion; the
\* notebook is at its end only when the run has ended; and a notebook run in
\* which nothing raises reaches its end.
C9_WaitsAndTerminates ==
    /\ [](/\ Stmt(Len(Program(nb))) = "run.wait_for_completion"
          /\ Done => (runStatus \in {"completed", "failed"} /\ bindings["run"] = "run"))
    /\ <>(Done \/ failed)

C9_Witness ==
    /\ nb = CloudData
    /\ Done
    /\ runStatus = "completed"
    /\ logLines = MaxLogLines

\* The transition in which a cleanup statement returns.
CleanupReturns ==
    \E i \in returned' \ returned : Stmt(i) \in {"os.remove", "shutil.rmtree"}

\* C10: the cleanup statements begin only after ds.upload has returned, and
\* their return changes the working directory only (the datastore and all
\* else but the kernel's bookkeeping stay as they were); when submit is in
\* progress the uploaded files are in the datastore under
\* tutorials/datasets/cifar-10-batches-py and both local copies are gone.
C10_CleanupIsLocal ==
    /\ [](nb = CloudData =>
            /\ (Begun("os.remove") \/ Begun("shutil.rmtree")) => HasReturned("ds.upload")
            /\ InProgress("Experiment.submit") =>
                  /\ \A f \in {"data_batch_1", "test_batch", "batches.meta"} :
                        <<"tutorials", "datasets", "cifar-10-batches-py", f>> \in blobs
                  /\ <<"cifar-10-python.tar.gz">> \notin localFiles
                  /\ ~\E p \in localFiles : p[1] = "cifar-10-batches-py")
    /\ [][CleanupReturns =>
             /\ blobs' = blobs
             /\ localFiles' \subseteq localFiles
             /\ localFiles' # localFiles
             /\ UNCHANGED <<bindings, dataArg, runStatus, dataSeen, logLines,
                            tbState, tbSynced, widgetShown>>]_vars

C10_Witness ==
    /\ nb = CloudData
    /\ InProgress("Experiment.submit")
    /\ localFiles = {}
    /\ blobs0 = {}

====
